---------------------------- MODULE Spec2Model ----------------------------
(* Weekly workout scheduler (the Scheduler component): the in-memory plan  *)
(* store (sessions, sessionForm, exerciseDrafts), its mutation handlers    *)
(* and the time/day arithmetic of duplicateSession.                        *)
(*                                                                         *)
(* Text is modelled by TLA+ strings (Len, SubSeq and \o act on them), so   *)
(* trim, split, parseInt, toString and padStart are computed character by  *)
(* character.  uuid() is modelled by a counter: the k-th call returns k,   *)
(* a value no earlier call returned.                                       *)
EXTENDS Integers, Sequences, FiniteSets, Bags, TLC

VARIABLES sessions, sessionForm, exerciseDrafts, uuidCount, everUsed, lastOp, prev

vars == <<sessions, sessionForm, exerciseDrafts, uuidCount, everUsed, lastOp, prev>>

---------------------------------------------------------------------------
(* Bounds of the model *)

\* uuid() is called at most this many times in a behaviour
MaxUuid == 17
\* rows of the exercise-draft buffer
MaxDrafts == 2

---------------------------------------------------------------------------
(* Strings *)

Digits == <<"0", "1", "2", "3", "4", "5", "6", "7", "8", "9">>

\* the WhiteSpace and LineTerminator characters a string can hold here: space,
\* tab, line feed, form feed, carriage return and, written as the characters
\* themselves, U+000B (vertical tab), U+00A0 (no-break space), U+1680 (Ogham
\* space) and U+FEFF (zero width no-break space).  U+2000 to U+200A, U+2028,
\* U+2029, U+202F, U+205F and U+3000 are white space too, but no string of
\* this module can hold them
WhiteSpace ==
  {" ", "\t", "\n", "\f", "\r", "", " ", " ", "﻿"}

CharAt(s, i) == SubSeq(s, i, i)

IsDigit(c) == \E d \in 1..10 : Digits[d] = c

DigitValue(c) == (CHOOSE d \in 1..10 : Digits[d] = c) - 1

RECURSIVE trimStart(_)
trimStart(s) ==
  IF Len(s) > 0 /\ CharAt(s, 1) \in WhiteSpace
  THEN trimStart(SubSeq(s, 2, Len(s)))
  ELSE s

RECURSIVE trimEnd(_)
trimEnd(s) ==
  IF Len(s) > 0 /\ CharAt(s, Len(s)) \in WhiteSpace
  THEN trimEnd(SubSeq(s, 1, Len(s) - 1))
  ELSE s

\* String.prototype.trim
trim(s) == trimEnd(trimStart(s))

\* String.prototype.split(sep) for a one-character separator
RECURSIVE split(_, _)
split(s, sep) ==
  IF \E i \in 1..Len(s) : CharAt(s, i) = sep
  THEN LET i == CHOOSE k \in 1..Len(s) :
                  /\ CharAt(s, k) = sep
                  /\ \A j \in 1..(k - 1) : CharAt(s, j) # sep
       IN <<SubSeq(s, 1, i - 1)>> \o split(SubSeq(s, i + 1, Len(s)), sep)
  ELSE <<s>>

\* an array element read by destructuring; a missing element is undefined,
\* which parseInt converts to the string "undefined"
ElementOrUndefined(arr, i) == IF i <= Len(arr) THEN arr[i] ELSE "undefined"

---------------------------------------------------------------------------
(* JavaScript numbers: an integer or NaN *)

Num(v) == [nan |-> FALSE, v |-> v]

NaN == [nan |-> TRUE, v |-> 0]

jsAdd(a, b) == IF a.nan \/ b.nan THEN NaN ELSE Num(a.v + b.v)

jsMul(a, b) == IF a.nan \/ b.nan THEN NaN ELSE Num(a.v * b.v)

\* the % operator: the remainder has the sign of the dividend
jsRem(a, b) ==
  IF a.nan \/ b.nan \/ b.v = 0 THEN NaN
  ELSE IF a.v >= 0 THEN Num(a.v % b.v) ELSE Num(0 - ((0 - a.v) % b.v))

\* Math.floor(a / b) for b > 0
jsFloorDiv(a, b) == IF a.nan \/ b.nan THEN NaN ELSE Num(a.v \div b.v)

RECURSIVE natToString(_)
natToString(n) ==
  IF n < 10 THEN Digits[n + 1]
  ELSE natToString(n \div 10) \o Digits[(n % 10) + 1]

\* Number.prototype.toString
toString(a) ==
  IF a.nan THEN "NaN"
  ELSE IF a.v < 0 THEN "-" \o natToString(0 - a.v) ELSE natToString(a.v)

\* String.prototype.padStart with a one-character fill
RECURSIVE padStart(_, _, _)
padStart(s, len, fill) ==
  IF Len(s) >= len THEN s ELSE padStart(fill \o s, len, fill)

\* the longest prefix of s made of decimal digits
digitPrefix(s) ==
  SubSeq(s, 1, CHOOSE n \in 0..Len(s) :
                 /\ \A i \in 1..n : IsDigit(CharAt(s, i))
                 /\ n = Len(s) \/ ~IsDigit(CharAt(s, n + 1)))

RECURSIVE digitsValue(_, _)
digitsValue(s, acc) ==
  IF Len(s) = 0 THEN acc
  ELSE digitsValue(SubSeq(s, 2, Len(s)), acc * 10 + DigitValue(CharAt(s, 1)))

\* parseInt(str, 10): leading white space, an optional sign, then the longest
\* prefix of decimal digits; NaN when there is none
parseInt(str) ==
  LET t == trimStart(str)
      signed == Len(t) > 0 /\ CharAt(t, 1) \in {"+", "-"}
      body == IF signed THEN SubSeq(t, 2, Len(t)) ELSE t
      ds == digitPrefix(body)
  IN IF Len(ds) = 0 THEN NaN
     ELSE IF signed /\ CharAt(t, 1) = "-" THEN Num(0 - digitsValue(ds, 0))
     ELSE Num(digitsValue(ds, 0))

---------------------------------------------------------------------------
(* Static data *)

dayKeys == <<"Monday", "Tuesday", "Wednesday", "Thursday", "Friday", "Saturday", "Sunday">>

\* Array.prototype.indexOf, 0-based, -1 when absent
indexOf(arr, x) ==
  IF \E i \in 1..Len(arr) : arr[i] = x
  THEN (CHOOSE i \in 1..Len(arr) : arr[i] = x /\ \A j \in 1..(i - 1) : arr[j] # x) - 1
  ELSE -1

intensities == <<"Light", "Moderate", "Intense">>

Exercise(id, name, focus, sets, reps, notes) ==
  [id |-> id, name |-> name, focus |-> focus, sets |-> sets, reps |-> reps, notes |-> notes]

\* the module-level uuid() calls come first: defaultExercises takes the ids
\* 1..2 and the template exercises the ids 3..10
defaultExercises ==
  << Exercise(1, "Barbell Back Squat", "Compound", 4, "6-8", "Tempo 3-1-1, rest 120s"),
     Exercise(2, "Romanian Deadlift", "Posterior Chain", 3, "8-10", "Use straps if grip fatigues") >>

templates ==
  << [label |-> "Push Power 60m", focus |-> "Upper Body Push", intensity |-> "Intense",
      location |-> "Strength Zone", target |-> "Chest/Shoulders/Triceps",
      notes |-> "Prioritize heavy compounds, finish with sled pushes.",
      exercises |->
        << Exercise(3, "Flat Bench Press", "Compound", 5, "5", "Add 2.5kg each microcycle"),
           Exercise(4, "Seated DB Shoulder Press", "Accessory", 3, "8-10", ""),
           Exercise(5, "Weighted Dips", "Accessory", 3, "AMRAP", "RPE 8") >>],
     [label |-> "Conditioning 40m", focus |-> "Engine Builder", intensity |-> "Moderate",
      location |-> "Turf + Assault Bike", target |-> "Cardio / Core",
      notes |-> "Sustainable heart rate 150-160, nasal breathing focus.",
      exercises |->
        << Exercise(6, "Assault Bike Intervals", "Cardio", 8, "60s on / 60s off", ""),
           Exercise(7, "Farmer Carry", "Core / Grip", 4, "40m", "Heavy kettlebells") >>],
     [label |-> "Mobility Reset 30m", focus |-> "Recovery", intensity |-> "Light",
      location |-> "Studio", target |-> "Mobility / Breathwork",
      notes |-> "Full-body flow to enhance recovery and joint health.",
      exercises |->
        << Exercise(8, "90/90 Hip Flow", "Mobility", 3, "3 min per side", ""),
           Exercise(9, "Thoracic Opener", "Mobility", 3, "12 reps", "Foam roller"),
           Exercise(10, "Box Breathing", "Breathwork", 1, "6 min", "4-4-4-4 cadence") >>] >>

\* uuid() calls made while the module is loaded
ModuleUuids == 10

initialSessionForm ==
  [day |-> "Monday", start |-> "07:00", end |-> "08:15", focus |-> "Lower Body Strength",
   intensity |-> "Intense", location |-> "Rack Bay", target |-> "Quads/Glutes/Core",
   notes |-> ""]

\* the identifier returned by uuid() when n identifiers were generated before
uuid(n) == n + 1

\* { id, ...form, exercises }
SessionOf(id, form, exercises) ==
  [id |-> id, day |-> form.day, start |-> form.start, end |-> form.end,
   focus |-> form.focus, intensity |-> form.intensity, location |-> form.location,
   target |-> form.target, notes |-> form.notes, exercises |-> exercises]

\* withFreshIds with the identifiers of the originals kept
withCopiedIds(list, n) == list

\* exercises.map((exercise) => ({ ...exercise, id: uuid() }))
withFreshIds(list, n) ==
  [i \in 1..Len(list) |-> [list[i] EXCEPT !.id = uuid(n + i - 1)]]

---------------------------------------------------------------------------
(* Handlers, as functions of the state they read *)

\* setSessionForm((prev) => ({ ...prev, [key]: value }))
handleSessionChange(form, key, value) == [form EXCEPT ![key] = value]

\* prev.map((exercise) => exercise.id === id ? { ...exercise, [key]: value } : exercise)
handleExerciseChange(drafts, id, key, value) ==
  [i \in 1..Len(drafts) |->
     IF drafts[i].id = id THEN [drafts[i] EXCEPT ![key] = value] ELSE drafts[i]]

\* Values of Number(text) besides NaN and the integers of at most nine
\* digits, which are Num(v): -0, the infinities, and the other doubles.  A
\* double is written sign * digits * 10^exponent with digits the shortest
\* decimal numeral that rounds to it, as Number::toString writes it
NegativeZero == [nan |-> FALSE, v |-> 0, negative |-> TRUE]

Infinity(negative) == [nan |-> FALSE, infinite |-> TRUE, negative |-> negative]

Decimal(negative, digits, exponent) ==
  [nan |-> FALSE, negative |-> negative, digits |-> digits, exponent |-> exponent]

\* a string of k zeros
RECURSIVE zeros(_)
zeros(k) ==
  IF k <= 0 THEN ""
  ELSE IF k = 1 THEN "0"
  ELSE zeros(k \div 2) \o zeros(k - (k \div 2))

stripLeadingZeros(ds) ==
  IF ds = zeros(Len(ds)) THEN ""
  ELSE SubSeq(ds, CHOOSE i \in 1..Len(ds) :
                    CharAt(ds, i) # "0" /\ SubSeq(ds, 1, i - 1) = zeros(i - 1),
              Len(ds))

stripTrailingZeros(ds) ==
  IF ds = zeros(Len(ds)) THEN ""
  ELSE SubSeq(ds, 1, CHOOSE i \in 1..Len(ds) :
                       /\ CharAt(ds, i) # "0"
                       /\ SubSeq(ds, i + 1, Len(ds)) = zeros(Len(ds) - i))

\* a >= b, for strings of digits of the same length
digitsAtLeast(a, b) ==
  IF a = b THEN TRUE
  ELSE LET i == CHOOSE k \in 1..Len(a) :
                  CharAt(a, k) # CharAt(b, k) /\ SubSeq(a, 1, k - 1) = SubSeq(b, 1, k - 1)
       IN DigitValue(CharAt(a, i)) > DigitValue(CharAt(b, i))

\* a is at least b, for numerals read as the digits after a decimal point
fractionAtLeast(a, b) ==
  digitsAtLeast(a \o zeros(Len(b) - Len(a)), b \o zeros(Len(a) - Len(b)))

\* the decimal digits of 2^1024 - 2^970, a number of 309 digits: the values
\* from it on round to Infinity
OverflowDigits ==
  "179769313486231580793728971405303415079934132710037826936173"
    \o "778980444968292764750946649017977587207096330286416692887910"
    \o "946555547851940402630657488671505820681908902000708383676273"
    \o "854845817711531764475730270069855571366959622842914819860834"
    \o "936475292719074168444365510704342711559699508093042880177904"
    \o "174497792"

\* the decimal digits of 5^1075; 2^-1075 is 0.UnderflowDigits * 10^-323, and
\* the values up to it round to zero
UnderflowDigits ==
  "247032822920623272088284396434110686182529901307162382212792"
    \o "841250337753635104375932649918180817996189898282347722858865"
    \o "463328355177969898199387398005390939063150356595155702263922"
    \o "908583924491051844359318028499365361525003193704576782492193"
    \o "656236698636584807570015857692699037063119282795585513329278"
    \o "343384093519780155312465972635795746227664652728272200563740"
    \o "064854999770965994704540208281662262378573934507363390079677"
    \o "619305775067401763246736009689513405355374585166611342237666"
    \o "786041621596804619144672918403005300575308490487653917113865"
    \o "916462395249126236538818796362393732804238910186723484976682"
    \o "350898633885879256283027559956575244555072551893136908362547"
    \o "791869486679949683240497058210285131854513962138377228261454"
    \o "37693412532098591327667236328125"

RECURSIVE powerOfTen(_)
powerOfTen(k) == IF k = 0 THEN 1 ELSE 10 * powerOfTen(k - 1)

\* A natural number of any size is the sequence of its decimal digits, the
\* most significant first and not 0; the number zero is the empty sequence
digitsOf(s) == [i \in 1..Len(s) |-> DigitValue(CharAt(s, i))]

\* the decimal numeral of a sequence of digits
RECURSIVE numeralOf(_)
numeralOf(a) ==
  IF Len(a) = 0 THEN ""
  ELSE IF Len(a) = 1 THEN Digits[a[1] + 1]
  ELSE numeralOf(SubSeq(a, 1, Len(a) \div 2))
         \o numeralOf(SubSeq(a, (Len(a) \div 2) + 1, Len(a)))

withoutLeadingZeros(a) ==
  IF \A i \in 1..Len(a) : a[i] = 0 THEN << >>
  ELSE SubSeq(a, CHOOSE i \in 1..Len(a) : a[i] # 0 /\ \A j \in 1..(i - 1) : a[j] = 0,
              Len(a))

\* the digits of an integer from 0 to 2^31 - 1
natural(n) == withoutLeadingZeros([i \in 1..10 |-> (n \div powerOfTen(10 - i)) % 10])

\* a >= b
atLeast(a, b) ==
  IF Len(a) # Len(b) THEN Len(a) > Len(b)
  ELSE IF a = b THEN TRUE
  ELSE LET i == CHOOSE k \in 1..Len(a) : a[k] # b[k] /\ \A j \in 1..(k - 1) : a[j] = b[j]
       IN a[i] > b[i]

\* the digit of a that is k places before its last one, 0 when a is shorter
digitAt(a, k) == IF k < Len(a) THEN a[Len(a) - k] ELSE 0

\* s holds the sums, digit by digit, of two numbers; a one is carried into
\* place i when the first sum after it that is not 9 is 10 or more
carryInto(s, i) ==
  /\ \E j \in (i + 1)..Len(s) : s[j] # 9
  /\ s[CHOOSE j \in (i + 1)..Len(s) :
         s[j] # 9 /\ \A k \in (i + 1)..(j - 1) : s[k] = 9] >= 10

\* the number whose digits are the sums s with the carries
sumOf(s) ==
  withoutLeadingZeros([i \in 1..Len(s) |-> (s[i] + (IF carryInto(s, i) THEN 1 ELSE 0)) % 10])

\* a + b; leading zeros in a and b are allowed
plus(a, b) ==
  sumOf([i \in 1..((IF Len(a) > Len(b) THEN Len(a) ELSE Len(b)) + 1) |->
           digitAt(a, (IF Len(a) > Len(b) THEN Len(a) ELSE Len(b)) + 1 - i)
             + digitAt(b, (IF Len(a) > Len(b) THEN Len(a) ELSE Len(b)) + 1 - i)])

\* the sum of the values of a function of natural numbers: the counts of a
\* bag are positive, so each value goes in plus one
Sum(f) == BagCardinality([x \in DOMAIN f |-> f[x] + 1]) - Cardinality(DOMAIN f)

\* the sum of the products of the digits of a and b that fall in column k of
\* the long multiplication, the columns counted from the left
column(a, b, k) ==
  Sum([i \in (IF k + 1 - Len(b) > 1 THEN k + 1 - Len(b) ELSE 1)
               ..(IF k < Len(a) THEN k ELSE Len(a)) |-> a[i] * b[k + 1 - i]])

\* the number with the column sums c, from their decimal digit t on: the
\* digits t of the sums make a number, to which the further digits are added
RECURSIVE carried(_, _)
carried(c, t) ==
  IF \A k \in 1..Len(c) : c[k] \div powerOfTen(t) = 0 THEN << >>
  ELSE plus([k \in 1..Len(c) |-> (c[k] \div powerOfTen(t)) % 10] \o [k \in 1..t |-> 0],
            carried(c, t + 1))

\* a * b
times(a, b) ==
  IF Len(a) = 0 \/ Len(b) = 0 THEN << >>
  ELSE carried([k \in 1..(Len(a) + Len(b) - 1) |-> column(a, b, k)], 0)

PowersOfTwo == <<1, 2, 4, 8, 16, 32, 64, 128, 256, 512, 1024, 2048, 4096, 8192>>

PowersOfFive ==
  <<1, 5, 25, 125, 625, 3125, 15625, 78125, 390625, 1953125, 9765625, 48828125,
    244140625, 1220703125>>

\* base^k for the bases 2 and 5
RECURSIVE power(_, _)
power(base, k) ==
  IF k <= 13 THEN natural(IF base = 2 THEN PowersOfTwo[k + 1] ELSE PowersOfFive[k + 1])
  ELSE times(times(power(base, k \div 2), power(base, k \div 2)),
             IF k % 2 = 0 THEN <<1>> ELSE <<base>>)

\* the digits of the bases 2, 8 and 16, in either case
RadixDigits == "0123456789abcdef"

RadixDigitsUpper == "0123456789ABCDEF"

IsRadixDigit(c, base) ==
  \E k \in 1..base : CharAt(RadixDigits, k) = c \/ CharAt(RadixDigitsUpper, k) = c

RadixDigitValue(c) ==
  (CHOOSE k \in 1..16 : CharAt(RadixDigits, k) = c \/ CharAt(RadixDigitsUpper, k) = c) - 1

\* base^k as a power of two, for the bases 2, 8 and 16
radixPower(base, k) == power(2, k * (IF base = 16 THEN 4 ELSE IF base = 8 THEN 3 ELSE 1))

\* the value of the numeral s of a base: that of its left half, times the
\* base for each digit of the right half, plus that of its right half
RECURSIVE radixValue(_, _)
radixValue(s, base) ==
  IF Len(s) = 1 THEN natural(RadixDigitValue(s))
  ELSE plus(times(radixValue(SubSeq(s, 1, Len(s) \div 2), base),
                  radixPower(base, Len(s) - (Len(s) \div 2))),
            radixValue(SubSeq(s, (Len(s) \div 2) + 1, Len(s)), base))

\* the decimal numeral of the numeral s of a base
radixToDecimal(s, base) == numeralOf(radixValue(s, base))

TwoTo52 == digitsOf("4503599627370496")

TwoTo53 == digitsOf("9007199254740992")

\* w * 10^x as a whole number and the digits after the decimal point
shifted(w, x) ==
  IF x >= 0 THEN [whole |-> w \o [i \in 1..x |-> 0], fraction |-> << >>]
  ELSE IF 0 - x >= Len(w)
  THEN [whole |-> << >>, fraction |-> [i \in 1..(0 - x - Len(w)) |-> 0] \o w]
  ELSE [whole |-> SubSeq(w, 1, Len(w) + x),
        fraction |-> SubSeq(w, Len(w) + x + 1, Len(w))]

\* ds * 10^e / 2^q as a whole number and the digits after the decimal point:
\* a division by 2^q is a multiplication by 5^q and a shift of q digits
scaledTo(ds, e, q) ==
  shifted(times(ds, power(IF q < 0 THEN 2 ELSE 5, IF q < 0 THEN 0 - q ELSE q)),
          e - (IF q < 0 THEN 0 ELSE q))

\* an exponent that is at most that of the doubles next to a value from
\* 10^(order - 1) to 10^order, and not less than -1074, the least exponent of
\* a double: 3.321928 is less than the logarithm of ten to the base two
leastExponent(order) ==
  IF (((order - 1) * 3321928) \div 1000000) - 53 < -1074 THEN -1074
  ELSE (((order - 1) * 3321928) \div 1000000) - 53

\* the exponent q of the doubles next to the value w * 2^q0, with w a whole
\* number and a fraction: w / 2^(q - q0) is less than 2^53, and q is q0 plus
\* the number of the powers of two from 2^53 on that w reaches
exponentFrom(w, q0) == q0 + Cardinality({i \in 0..9 : atLeast(w, power(2, 53 + i))})

\* the exponent of the doubles next to ds * 10^e, with ds of one digit or
\* more: the value is m * 2^q with 2^52 <= m < 2^53, or with m < 2^52 when
\* q is -1074
exponentOf(ds, e) ==
  exponentFrom(scaledTo(ds, e, leastExponent(Len(ds) + e)).whole,
               leastExponent(Len(ds) + e))

\* s.whole.s.fraction rounded to a whole number m, to the even one when the
\* fraction is a half, and the double m * 2^q; 2^53 * 2^q is 2^52 * 2^(q + 1)
roundedAt(s, q) ==
  LET up == /\ Len(s.fraction) > 0
            /\ \/ s.fraction[1] > 5
               \/ /\ s.fraction[1] = 5
                  /\ \/ \E i \in 2..Len(s.fraction) : s.fraction[i] # 0
                     \/ digitAt(s.whole, 0) % 2 = 1
      m == IF up THEN plus(s.whole, <<1>>) ELSE s.whole
  IN IF m = TwoTo53 THEN [m |-> TwoTo52, q |-> q + 1] ELSE [m |-> m, q |-> q]

\* the double m * 2^q that is nearest to ds * 10^e, the one with the even m
\* of two that are as near
binaryAt(ds, e, q) == roundedAt(scaledTo(ds, e, q), q)

binary64(ds, e) == binaryAt(ds, e, exponentOf(ds, e))

\* the digits w and the exponent of ten without the trailing zeros of w
withoutTrailingZeros(w, exponent) ==
  LET last == CHOOSE i \in 1..Len(w) : w[i] # 0 /\ \A j \in (i + 1)..Len(w) : w[j] = 0
  IN [digits |-> SubSeq(w, 1, last), exponent |-> exponent + Len(w) - last]

\* the exact decimal value of the double b.m * 2^b.q
exactOf(b) ==
  withoutTrailingZeros(
    times(b.m, power(IF b.q >= 0 THEN 2 ELSE 5, IF b.q >= 0 THEN b.q ELSE 0 - b.q)),
    IF b.q >= 0 THEN 0 ELSE b.q)

\* the first n digits of the value x, and the exponent of ten that goes
\* with them
firstDigits(x, n) == SubSeq(x.digits, 1, n)

exponentAt(x, n) == x.exponent + Len(x.digits) - n

\* the numerals of n digits next to the value x are its first n digits, as
\* they are (below x) and plus one (above x)
roundsBelow(b, x, n) == binary64(firstDigits(x, n), exponentAt(x, n)) = b

roundsAbove(b, x, n) ==
  binary64(plus(firstDigits(x, n), <<1>>), exponentAt(x, n)) = b

\* a numeral of n digits rounds to the double b, whose exact value is x
roundTrips(b, x, n) ==
  n >= Len(x.digits) \/ roundsBelow(b, x, n) \/ roundsAbove(b, x, n)

\* the numeral above x is nearer to x than the one below; when they are as
\* near, the even one counts as the nearer
nearerAbove(x, n) ==
  IF x.digits[n + 1] # 5 THEN x.digits[n + 1] > 5
  ELSE Len(x.digits) > n + 1 \/ x.digits[n] % 2 = 1

\* of the numerals of n digits that round to b, the one nearest to x
nearest(b, x, n) ==
  IF n >= Len(x.digits) THEN x
  ELSE IF roundsBelow(b, x, n) /\ ~(roundsAbove(b, x, n) /\ nearerAbove(x, n))
  THEN withoutTrailingZeros(firstDigits(x, n), exponentAt(x, n))
  ELSE withoutTrailingZeros(plus(firstDigits(x, n), <<1>>), exponentAt(x, n))

\* Number::toString's digits of the double b, whose exact value is x: the
\* numeral with the fewest digits that rounds to b.  A numeral of n digits
\* that rounds to b is one of n + 1 digits too, so the fewest digits are the
\* first n that do when n - 1 do not
shortest(b, x) ==
  nearest(b, x, CHOOSE n \in 1..Len(x.digits) :
                  roundTrips(b, x, n) /\ (n = 1 \/ ~roundTrips(b, x, n - 1)))

shortestFor(b) == shortest(b, exactOf(b))

\* a number by its sign and its shortest decimal numeral: an integer of at
\* most nine digits is Num(v)
numberFrom(negative, x) ==
  IF x.exponent >= 0 /\ Len(x.digits) + x.exponent <= 9
  THEN Num((IF negative THEN -1 ELSE 1)
             * digitsValue(numeralOf(x.digits), 0) * powerOfTen(x.exponent))
  ELSE Decimal(negative, numeralOf(x.digits), x.exponent)

\* the double nearest to sign * digits * 10^exponent, for a numeral digits
\* of one digit or more
rounded(negative, digits, exponent) ==
  numberFrom(negative, shortestFor(binary64(digitsOf(digits), exponent)))

\* the number sign * mantissa * 10^exponent for a decimal numeral mantissa,
\* rounded to a double: a value of 2^-1075 or less is a zero, a value of
\* 2^1024 - 2^970 or more is an infinity, an integer of at most nine digits
\* is itself, and any other value is the double nearest to it, which is
\* written by the shortest decimal numeral that rounds to it
numberOf(negative, mantissa, exponent) ==
  LET lead == stripLeadingZeros(mantissa)
      ds == stripTrailingZeros(lead)
      e == exponent + (Len(lead) - Len(ds))
      order == Len(ds) + e
  IN IF \/ Len(ds) = 0
        \/ order < -323
        \/ order = -323 /\ fractionAtLeast(UnderflowDigits, ds)
     THEN (IF negative THEN NegativeZero ELSE Num(0))
     ELSE IF order > 309 \/ (order = 309 /\ fractionAtLeast(ds, OverflowDigits))
     THEN Infinity(negative)
     ELSE IF e >= 0 /\ order <= 9
     THEN Num((IF negative THEN -1 ELSE 1) * digitsValue(ds, 0) * powerOfTen(e))
     ELSE rounded(negative, ds, e)

\* An exponent of 10^9 or more is taken as 10^9.  The value of a literal
\* depends on its exponent plus the number of the digits before the point (or
\* minus the number of the zeros after it), so a mantissa makes up for an
\* exponent only when it is about as long as the exponent is large, and a
\* text is taken to be shorter than 10^9 - 400 characters
ExponentCap == 1000000000

\* the value of the digits of an exponent, without its leading zeros
exponentValue(shortE) ==
  IF Len(shortE) > 9 THEN ExponentCap ELSE digitsValue(shortE, 0)

\* StrUnsignedDecimalLiteral: digits, a fraction and an exponent, with a digit
\* before or after the point; the exponent part is "e" or "E", an optional
\* sign and digits.  The value is the mantissa times ten to the exponent less
\* the number of the digits of the fraction
decimalLiteral(negative, body) ==
  LET whole == digitPrefix(body)
      afterWhole == SubSeq(body, Len(whole) + 1, Len(body))
      pointed == Len(afterWhole) > 0 /\ CharAt(afterWhole, 1) = "."
      fraction == IF pointed THEN digitPrefix(SubSeq(afterWhole, 2, Len(afterWhole))) ELSE ""
      afterFraction ==
        IF pointed THEN SubSeq(afterWhole, Len(fraction) + 2, Len(afterWhole))
        ELSE afterWhole
      powered == Len(afterFraction) > 0 /\ CharAt(afterFraction, 1) \in {"e", "E"}
      afterE == SubSeq(afterFraction, 2, Len(afterFraction))
      signedE == Len(afterE) > 0 /\ CharAt(afterE, 1) \in {"+", "-"}
      negativeE == signedE /\ CharAt(afterE, 1) = "-"
      digitsE == IF signedE THEN SubSeq(afterE, 2, Len(afterE)) ELSE afterE
      shortE == stripLeadingZeros(digitsE)
  IN IF Len(whole) + Len(fraction) = 0 THEN NaN
     ELSE IF Len(afterFraction) = 0
     THEN numberOf(negative, whole \o fraction, 0 - Len(fraction))
     ELSE IF ~powered \/ Len(digitsE) = 0 \/ digitPrefix(digitsE) # digitsE THEN NaN
     ELSE numberOf(negative, whole \o fraction,
                   (IF negativeE THEN -1 ELSE 1) * exponentValue(shortE) - Len(fraction))

\* the base of a numeral with the prefix 0x, 0o or 0b, in either case; 0 when
\* the text has no such prefix
radixOf(t) ==
  IF Len(t) < 2 \/ CharAt(t, 1) # "0" THEN 0
  ELSE IF CharAt(t, 2) \in {"x", "X"} THEN 16
  ELSE IF CharAt(t, 2) \in {"o", "O"} THEN 8
  ELSE IF CharAt(t, 2) \in {"b", "B"} THEN 2
  ELSE 0

\* Number(text): white space around the text is dropped; the empty text is 0;
\* an unsigned numeral of base 16, 8 or 2 is its value; an optionally signed
\* "Infinity" is an infinity; an optionally signed decimal literal is its
\* value; any other text is NaN
jsNumber(text) ==
  LET t == trim(text)
      signed == Len(t) > 0 /\ CharAt(t, 1) \in {"+", "-"}
      negative == signed /\ CharAt(t, 1) = "-"
      body == IF signed THEN SubSeq(t, 2, Len(t)) ELSE t
      numeral == SubSeq(t, 3, Len(t))
  IN IF Len(t) = 0 THEN Num(0)
     ELSE IF radixOf(t) # 0
     THEN (IF Len(numeral) > 0
              /\ \A k \in 1..Len(numeral) : IsRadixDigit(CharAt(numeral, k), radixOf(t))
           THEN numberOf(FALSE, radixToDecimal(numeral, radixOf(t)), 0)
           ELSE NaN)
     ELSE IF body = "Infinity" THEN Infinity(negative)
     ELSE decimalLiteral(negative, body)

\* the sets input's onChange: Number(event.target.value) || 0; NaN, 0 and -0
\* give 0, an integer of at most nine digits is that integer, and any other
\* number is stored as it is
setsFromInput(text) ==
  LET v == jsNumber(text)
  IN IF v.nan THEN 0
     ELSE IF "v" \in DOMAIN v THEN v.v
     ELSE v

\* [...prev, { id: uuid(), name: '', focus: '', sets: 3, reps: '10', notes: '' }]
addExerciseDraft(drafts, n) ==
  Append(drafts, Exercise(uuid(n), "", "", 3, "10", ""))

\* removeExerciseDraft without the test of the length
removeExerciseDraftAny(drafts, id) == SelectSeq(drafts, LAMBDA e : e.id # id)

\* prev.length === 1 ? prev : prev.filter((exercise) => exercise.id !== id)
removeExerciseDraft(drafts, id) ==
  IF Len(drafts) = 1 THEN drafts ELSE SelectSeq(drafts, LAMBDA e : e.id # id)

\* namedDrafts without the trim
namedDraftsUntrimmed(drafts) == SelectSeq(drafts, LAMBDA e : Len(e.name) > 0)

\* .filter((exercise) => exercise.name.trim().length > 0)
namedDrafts(drafts) == SelectSeq(drafts, LAMBDA e : Len(trim(e.name)) > 0)

\* fallback replaced by a blank draft row
fallbackBlankRow(id) == Exercise(id, "", "", 3, "8-12", "")

fallback(id) ==
  Exercise(id, "Full-Body Circuit", "Conditioning", 5, "45s on / 15s off",
           "Use sled, battle ropes, and med-ball slams")

\* sessionExercises without the fallback
sessionExercisesNoFallback(drafts, n) ==
  [exercises |-> withFreshIds(namedDrafts(drafts), n),
   uuidCount |-> n + Len(namedDrafts(drafts))]

\* the exercises of the session addSession builds and the number of uuid()
\* calls made so far: the named drafts with fresh ids, or the fallback
sessionExercises(drafts, n) ==
  LET exercises == withFreshIds(namedDrafts(drafts), n)
      n1 == n + Len(exercises)
  IN IF Len(exercises) = 0
     THEN [exercises |-> <<fallback(uuid(n1))>>, uuidCount |-> n1 + 1]
     ELSE [exercises |-> exercises, uuidCount |-> n1]

\* the draft buffer addSession leaves
resetDrafts(n) == <<Exercise(uuid(n), "", "", 3, "8-12", "")>>

\* addSession returning early, with nothing added, when no draft is named
addSessionNamedOnly(sess, form, drafts, n) ==
  LET built == sessionExercises(drafts, n)
      n2 == built.uuidCount
  IN [sessions |-> IF Len(namedDrafts(drafts)) = 0 THEN sess
                   ELSE Append(sess, SessionOf(uuid(n2), form, built.exercises)),
      exerciseDrafts |-> resetDrafts(n2 + 1),
      uuidCount |-> n2 + 2]

addSession(sess, form, drafts, n) ==
  LET built == sessionExercises(drafts, n)
      n2 == built.uuidCount
  IN [sessions |-> Append(sess, SessionOf(uuid(n2), form, built.exercises)),
      exerciseDrafts |-> resetDrafts(n2 + 1),
      uuidCount |-> n2 + 2]

\* applyTemplateToDay putting the new session in front of the others
applyTemplateInFront(sess, day, templateIndex, n) ==
  LET template == templates[templateIndex + 1]
  IN <<[id |-> uuid(n), day |-> day, start |-> "18:00", end |-> "19:00",
        focus |-> template.focus, intensity |-> template.intensity,
        location |-> template.location, target |-> template.target,
        notes |-> template.notes,
        exercises |-> withFreshIds(template.exercises, n + 1)]>> \o sess

\* applyTemplateToDay handing the template's own exercise objects to the session
applyTemplateShared(sess, day, templateIndex, n) ==
  LET template == templates[templateIndex + 1]
  IN Append(sess,
       [id |-> uuid(n), day |-> day, start |-> "18:00", end |-> "19:00",
        focus |-> template.focus, intensity |-> template.intensity,
        location |-> template.location, target |-> template.target,
        notes |-> template.notes,
        exercises |-> template.exercises])

\* applyTemplateToDay replacing the sessions of the day by the template's
applyTemplateReplacing(sess, day, templateIndex, n) ==
  LET template == templates[templateIndex + 1]
  IN Append(SelectSeq(sess, LAMBDA s : s.day # day),
       [id |-> uuid(n), day |-> day, start |-> "18:00", end |-> "19:00",
        focus |-> template.focus, intensity |-> template.intensity,
        location |-> template.location, target |-> template.target,
        notes |-> template.notes,
        exercises |-> withFreshIds(template.exercises, n + 1)])

\* templateIndex is the 0-based index of the template
applyTemplateToDay(sess, day, templateIndex, n) ==
  LET template == templates[templateIndex + 1]
  IN Append(sess,
       [id |-> uuid(n), day |-> day, start |-> "18:00", end |-> "19:00",
        focus |-> template.focus, intensity |-> template.intensity,
        location |-> template.location, target |-> template.target,
        notes |-> template.notes,
        exercises |-> withFreshIds(template.exercises, n + 1)])

\* clearDay with the test inverted
clearDayKeeping(sess, day) == SelectSeq(sess, LAMBDA s : s.day = day)

\* prev.filter((session) => session.day !== day)
clearDay(sess, day) == SelectSeq(sess, LAMBDA s : s.day # day)

\* removeSession dropping the session and all that follow it
removeSessionFrom(sess, sessionId) ==
  IF \E i \in 1..Len(sess) : sess[i].id = sessionId
  THEN SubSeq(sess, 1, (CHOOSE i \in 1..Len(sess) : sess[i].id = sessionId) - 1)
  ELSE sess

\* removeSession putting the session of the initial state back into a store it
\* has emptied
removeSessionReseeding(sess, sessionId) ==
  LET rest == SelectSeq(sess, LAMBDA s : s.id # sessionId)
  IN IF Len(rest) = 0
     THEN <<SessionOf(uuid(ModuleUuids), initialSessionForm, defaultExercises)>>
     ELSE rest

\* prev.filter((session) => session.id !== sessionId)
removeSession(sess, sessionId) == SelectSeq(sess, LAMBDA s : s.id # sessionId)

\* Array.prototype.find: the first match
find(sess, sessionId) ==
  sess[CHOOSE i \in 1..Len(sess) :
         sess[i].id = sessionId /\ \A j \in 1..(i - 1) : sess[j].id # sessionId]

hasSession(sess, sessionId) == \E i \in 1..Len(sess) : sess[i].id = sessionId

\* nextIndex stopping at the ends of the week
nextIndexClamped(currentDayIndex, direction) ==
  IF direction = "next"
  THEN (IF currentDayIndex + 1 >= Len(dayKeys) THEN currentDayIndex ELSE currentDayIndex + 1)
  ELSE (IF currentDayIndex = 0 THEN 0 ELSE currentDayIndex - 1)

\* the index in dayKeys of the day the copy goes to
nextIndex(currentDayIndex, direction) ==
  IF direction = "next"
  THEN (currentDayIndex + 1) % Len(dayKeys)
  ELSE (currentDayIndex - 1 + Len(dayKeys)) % Len(dayKeys)

\* offsetMinutes with half an hour back
offsetMinutesUneven(direction) == IF direction = "next" THEN 60 ELSE -30

offsetMinutes(direction) == IF direction = "next" THEN 60 ELSE -60

\* adjustTime with the plain remainder, not brought back above zero
adjustTimeRemainder(time, offset) ==
  LET parts == split(time, ":")
      hourStr == ElementOrUndefined(parts, 1)
      minuteStr == ElementOrUndefined(parts, 2)
      minuteValue == jsAdd(jsAdd(jsMul(parseInt(hourStr), Num(60)), parseInt(minuteStr)),
                           Num(offset))
      normalized == jsRem(minuteValue, Num(24 * 60))
      hours == padStart(toString(jsFloorDiv(normalized, Num(60))), 2, "0")
      minutes == padStart(toString(jsRem(normalized, Num(60))), 2, "0")
  IN hours \o ":" \o minutes

adjustTime(time, offset) ==
  LET parts == split(time, ":")
      hourStr == ElementOrUndefined(parts, 1)
      minuteStr == ElementOrUndefined(parts, 2)
      minuteValue == jsAdd(jsAdd(jsMul(parseInt(hourStr), Num(60)), parseInt(minuteStr)),
                           Num(offset))
      normalized == jsRem(jsAdd(jsRem(minuteValue, Num(24 * 60)), Num(24 * 60)), Num(24 * 60))
      hours == padStart(toString(jsFloorDiv(normalized, Num(60))), 2, "0")
      minutes == padStart(toString(jsRem(normalized, Num(60))), 2, "0")
  IN hours \o ":" \o minutes

\* the note of the copy; today is format(new Date(), 'MMM d').  The bullet
\* U+2022 of the source is written "*": a module is ASCII text
duplicateNotes(notes, direction, today) ==
  notes \o " * Duplicated " \o (IF direction = "next" THEN "forward" ELSE "backward")
        \o " on " \o today

\* duplicateOf shifting the start and keeping the end
duplicateOfStartOnly(target, direction, today, n) ==
  [target EXCEPT
     !.id = uuid(n),
     !.day = dayKeys[nextIndex(indexOf(dayKeys, target.day), direction) + 1],
     !.start = adjustTime(target.start, offsetMinutes(direction)),
     !.notes = duplicateNotes(target.notes, direction, today),
     !.exercises = withFreshIds(target.exercises, n + 1)]

\* the copy duplicateSession appends for the session target
duplicateOf(target, direction, today, n) ==
  [target EXCEPT
     !.id = uuid(n),
     !.day = dayKeys[nextIndex(indexOf(dayKeys, target.day), direction) + 1],
     !.start = adjustTime(target.start, offsetMinutes(direction)),
     !.end = adjustTime(target.end, offsetMinutes(direction)),
     !.notes = duplicateNotes(target.notes, direction, today),
     !.exercises = withFreshIds(target.exercises, n + 1)]

\* duplicateSession emptying the store when no session has the identifier
duplicateSessionOrReset(sess, sessionId, direction, today, n) ==
  IF ~hasSession(sess, sessionId) THEN <<>>
  ELSE Append(sess, duplicateOf(find(sess, sessionId), direction, today, n))

\* duplicateSession moving the session: the copy takes the place of the original
duplicateSessionMove(sess, sessionId, direction, today, n) ==
  IF ~hasSession(sess, sessionId) THEN sess
  ELSE Append(removeSession(sess, sessionId),
              duplicateOf(find(sess, sessionId), direction, today, n))

duplicateSession(sess, sessionId, direction, today, n) ==
  IF ~hasSession(sess, sessionId) THEN sess
  ELSE Append(sess, duplicateOf(find(sess, sessionId), direction, today, n))

\* the uuid() calls duplicateSession makes
duplicateUuids(sess, sessionId) ==
  IF ~hasSession(sess, sessionId) THEN 0
  ELSE 1 + Len(find(sess, sessionId).exercises)

---------------------------------------------------------------------------
(* Inputs of the handlers *)

\* days chosen in the form, in a template's day menu and by a Clear button
InputDays == {"Monday", "Sunday"}

\* (key, value) pairs chosen in the session form
FormInputs == {"day"} \X InputDays

\* (key, value) pairs typed into a draft row
DraftInputs == {"name"} \X {"", " ", "Row"}

\* format(new Date(), 'MMM d') on the days the page is used
Dates == {"Oct 29"}

Directions == {"next", "previous"}

\* identifiers handed to removeSession and duplicateSession: those of the
\* sessions in the store and 0, which no uuid() call returns
SessionIdInputs == {sessions[i].id : i \in 1..Len(sessions)} \cup {0}

---------------------------------------------------------------------------
(* The store *)

ExerciseIdsOf(sess) ==
  UNION {{sess[i].exercises[j].id : j \in 1..Len(sess[i].exercises)} : i \in 1..Len(sess)}

SessionIdsOf(sess) == {sess[i].id : i \in 1..Len(sess)}

DraftIdsOf(drafts) == {drafts[i].id : i \in 1..Len(drafts)}

\* identifiers held by the sessions, their exercises and the draft rows
EntityIds(sess, drafts) ==
  SessionIdsOf(sess) \cup ExerciseIdsOf(sess) \cup DraftIdsOf(drafts)

Snapshot ==
  [sessions |-> sessions, sessionForm |-> sessionForm,
   exerciseDrafts |-> exerciseDrafts, everUsed |-> everUsed]

\* History: lastOp names the handler that ran last, with the arguments the
\* properties below refer to; prev holds the session sequence, the form, the draft rows
\* and the identifiers used so far in the state it ran in; everUsed collects
\* every identifier an entity has held in any state
Record(op, args) ==
  /\ lastOp' = [op |-> op, args |-> args]
  /\ prev' = Snapshot
  /\ everUsed' = everUsed \cup EntityIds(sessions', exerciseDrafts')

Init ==
  /\ sessions = <<SessionOf(uuid(ModuleUuids), initialSessionForm, defaultExercises)>>
  /\ sessionForm = initialSessionForm
  /\ exerciseDrafts = <<Exercise(uuid(ModuleUuids + 1), "", "", 3, "8-12", "")>>
  /\ uuidCount = ModuleUuids + 2
  /\ everUsed = 1..(ModuleUuids + 2)
  /\ lastOp = [op |-> "init", args |-> <<>>]
  /\ prev = Snapshot

HandleSessionChange ==
  \E kv \in FormInputs :
    /\ sessionForm[kv[1]] # kv[2]
    /\ sessionForm' = handleSessionChange(sessionForm, kv[1], kv[2])
    /\ UNCHANGED <<sessions, exerciseDrafts, uuidCount>>
    /\ Record("handleSessionChange", <<>>)

HandleExerciseChange ==
  \E i \in 1..Len(exerciseDrafts), kv \in DraftInputs :
    /\ exerciseDrafts[i][kv[1]] # kv[2]
    /\ exerciseDrafts' = handleExerciseChange(exerciseDrafts, exerciseDrafts[i].id, kv[1], kv[2])
    /\ UNCHANGED <<sessions, sessionForm, uuidCount>>
    /\ Record("handleExerciseChange", <<>>)

AddExerciseDraft ==
  /\ Len(exerciseDrafts) < MaxDrafts
  /\ uuidCount + 1 <= MaxUuid
  /\ exerciseDrafts' = addExerciseDraft(exerciseDrafts, uuidCount)
  /\ uuidCount' = uuidCount + 1
  /\ UNCHANGED <<sessions, sessionForm>>
  /\ Record("addExerciseDraft", <<>>)

RemoveExerciseDraft ==
  \E i \in 1..Len(exerciseDrafts) :
    /\ exerciseDrafts' = removeExerciseDraft(exerciseDrafts, exerciseDrafts[i].id)
    /\ UNCHANGED <<sessions, sessionForm, uuidCount>>
    /\ Record("removeExerciseDraft", <<exerciseDrafts[i].id>>)

AddSession ==
  LET next == addSession(sessions, sessionForm, exerciseDrafts, uuidCount)
  IN /\ next.uuidCount <= MaxUuid
     /\ sessions' = next.sessions
     /\ exerciseDrafts' = next.exerciseDrafts
     /\ uuidCount' = next.uuidCount
     /\ UNCHANGED sessionForm
     /\ Record("addSession", <<exerciseDrafts>>)

ApplyTemplateToDay ==
  \E day \in InputDays, templateIndex \in 0..(Len(templates) - 1) :
    /\ uuidCount + 1 + Len(templates[templateIndex + 1].exercises) <= MaxUuid
    /\ sessions' = applyTemplateToDay(sessions, day, templateIndex, uuidCount)
    /\ uuidCount' = uuidCount + 1 + Len(templates[templateIndex + 1].exercises)
    /\ UNCHANGED <<sessionForm, exerciseDrafts>>
    /\ Record("applyTemplateToDay", <<day, templateIndex>>)

ClearDay ==
  \E day \in InputDays :
    /\ sessions' = clearDay(sessions, day)
    /\ UNCHANGED <<sessionForm, exerciseDrafts, uuidCount>>
    /\ Record("clearDay", <<day>>)

DuplicateSession ==
  \E sessionId \in SessionIdInputs, direction \in Directions, today \in Dates :
    /\ uuidCount + duplicateUuids(sessions, sessionId) <= MaxUuid
    /\ sessions' = duplicateSession(sessions, sessionId, direction, today, uuidCount)
    /\ uuidCount' = uuidCount + duplicateUuids(sessions, sessionId)
    /\ UNCHANGED <<sessionForm, exerciseDrafts>>
    /\ Record("duplicateSession", <<sessionId, direction>>)

RemoveSession ==
  \E sessionId \in SessionIdInputs :
    /\ sessions' = removeSession(sessions, sessionId)
    /\ UNCHANGED <<sessionForm, exerciseDrafts, uuidCount>>
    /\ Record("removeSession", <<sessionId>>)

Next ==
  \/ HandleSessionChange
  \/ HandleExerciseChange
  \/ AddExerciseDraft
  \/ RemoveExerciseDraft
  \/ AddSession
  \/ ApplyTemplateToDay
  \/ ClearDay
  \/ DuplicateSession
  \/ RemoveSession

Spec == Init /\ [][Next]_vars

---------------------------------------------------------------------------
(* The time and day arithmetic of duplicateSession over every time of day: *)
(* the store holds one session, added from the form after the seeded       *)
(* session was cleared, and it is duplicated.                              *)

\* the "HH:MM" text of minute k of the day
ClockText(k) ==
  Digits[((k \div 60) \div 10) + 1] \o Digits[((k \div 60) % 10) + 1] \o ":"
    \o Digits[((k % 60) \div 10) + 1] \o Digits[((k % 60) % 10) + 1]

\* the values a time input gives for a time the user picked
AllTimes == {ClockText(k) : k \in 0..(24 * 60 - 1)}

\* times next to midnight, the form's default, and the value of an emptied
\* time input
EdgeTimes == {"", "00:20", "07:00", "23:30"}

\* (day, start, end) of the session the form is filled in for
ShiftInputs ==
  (({"Wednesday"} \X AllTimes) \X {"08:15"})
    \cup (({"Wednesday"} \X {"07:00"}) \X AllTimes)
    \cup (({dayKeys[i] : i \in 1..Len(dayKeys)} \X EdgeTimes) \X EdgeTimes)

InitShift ==
  \E in \in ShiftInputs :
    LET seeded == <<SessionOf(uuid(ModuleUuids), initialSessionForm, defaultExercises)>>
        drafts == <<Exercise(uuid(ModuleUuids + 1), "", "", 3, "8-12", "")>>
        cleared == clearDay(seeded, "Monday")
        form == handleSessionChange(
                  handleSessionChange(
                    handleSessionChange(initialSessionForm, "day", in[1][1]),
                    "start", in[1][2]),
                  "end", in[2])
        next == addSession(cleared, form, drafts, ModuleUuids + 2)
    IN /\ sessions = next.sessions
       /\ sessionForm = form
       /\ exerciseDrafts = next.exerciseDrafts
       /\ uuidCount = next.uuidCount
       /\ everUsed = 1..next.uuidCount
       /\ lastOp = [op |-> "addSession", args |-> <<drafts>>]
       /\ prev = [sessions |-> cleared, sessionForm |-> form,
                  exerciseDrafts |-> drafts, everUsed |-> 1..(ModuleUuids + 2)]

NextShift == DuplicateSession

SpecShift == InitShift /\ [][NextShift]_vars

---------------------------------------------------------------------------
(* Duplications in a row: the session of InitShift is duplicated, and the  *)
(* copy or the session is duplicated again.  The step records, after the   *)
(* identifier and the direction, what the step before it recorded.         *)

MaxTripUuid == 19

TripDuplicateSession ==
  \E sessionId \in SessionIdsOf(sessions), direction \in Directions, today \in Dates :
    /\ uuidCount + duplicateUuids(sessions, sessionId) <= MaxTripUuid
    /\ sessions' = duplicateSession(sessions, sessionId, direction, today, uuidCount)
    /\ uuidCount' = uuidCount + duplicateUuids(sessions, sessionId)
    /\ UNCHANGED <<sessionForm, exerciseDrafts>>
    /\ Record("duplicateSession", <<sessionId, direction, lastOp>>)

NextTrip == TripDuplicateSession

SpecTrip == InitShift /\ [][NextTrip]_vars

---------------------------------------------------------------------------
(* The derived views of the store: the day grouping, the focus histogram,  *)
(* the next session and the load rating of a day.                          *)

\* the characters of time texts in collation order: punctuation, digits, letters
Collation == ":0123456789aN"

collationRank(c) == CHOOSE k \in 1..Len(Collation) : CharAt(Collation, k) = c

\* String.prototype.localeCompare on time texts: negative, 0 or positive
RECURSIVE localeCompare(_, _)
localeCompare(a, b) ==
  IF Len(a) = 0 /\ Len(b) = 0 THEN 0
  ELSE IF Len(a) = 0 THEN -1
  ELSE IF Len(b) = 0 THEN 1
  ELSE IF collationRank(CharAt(a, 1)) < collationRank(CharAt(b, 1)) THEN -1
  ELSE IF collationRank(CharAt(a, 1)) > collationRank(CharAt(b, 1)) THEN 1
  ELSE localeCompare(SubSeq(a, 2, Len(a)), SubSeq(b, 2, Len(b)))

\* (a, b) => a.start.localeCompare(b.start)
byStart(a, b) == localeCompare(a.start, b.start)

\* the comparator of nextSessionId: the difference of the day indices, then
\* the start texts
byDayThenStart(a, b) ==
  LET dayIndex == indexOf(dayKeys, a.day) - indexOf(dayKeys, b.day)
  IN IF dayIndex # 0 THEN dayIndex ELSE localeCompare(a.start, b.start)

\* the call of one of the two comparators, given by its name
compare(compareFn, a, b) ==
  IF compareFn = "byStart" THEN byStart(a, b) ELSE byDayThenStart(a, b)

\* sort putting, of the elements the comparator holds equal, the later first
sortTiesReversed(arr, compareFn) ==
  LET before(j, i) ==
        \/ compare(compareFn, arr[j], arr[i]) < 0
        \/ compare(compareFn, arr[j], arr[i]) = 0 /\ j > i
      position(i) == Cardinality({j \in 1..Len(arr) : before(j, i)}) + 1
  IN [k \in 1..Len(arr) |-> arr[CHOOSE i \in 1..Len(arr) : position(i) = k]]

\* Array.prototype.sort with a comparator: the sort is stable, so an element
\* comes after those the comparator puts before it and after the earlier
\* elements the comparator holds equal to it
sort(arr, compareFn) ==
  LET before(j, i) ==
        \/ compare(compareFn, arr[j], arr[i]) < 0
        \/ compare(compareFn, arr[j], arr[i]) = 0 /\ j < i
      position(i) == Cardinality({j \in 1..Len(arr) : before(j, i)}) + 1
  IN [k \in 1..Len(arr) |-> arr[CHOOSE i \in 1..Len(arr) : position(i) = k]]

\* grouped without the sort
groupedUnsorted(sess) ==
  [day \in {dayKeys[i] : i \in 1..Len(dayKeys)} |->
     SelectSeq(sess, LAMBDA s : s.day = day)]

\* dayKeys.reduce((acc, day) => { acc[day] = sessions.filter(...).sort(...) }, {})
grouped(sess) ==
  [day \in {dayKeys[i] : i \in 1..Len(dayKeys)} |->
     sort(SelectSeq(sess, LAMBDA s : s.day = day), "byStart")]

\* JavaScript values of the histogram: a number or a string
JsNumber(n) == [type |-> "number", num |-> n, str |-> ""]

JsString(text) == [type |-> "string", num |-> 0, str |-> text]

undefined == [type |-> "undefined", num |-> 0, str |-> ""]

\* the properties every object inherits from Object.prototype
ObjectPrototypeKeys ==
  {"constructor", "hasOwnProperty", "isPrototypeOf", "propertyIsEnumerable",
   "toLocaleString", "toString", "valueOf", "__defineGetter__",
   "__defineSetter__", "__lookupGetter__", "__lookupSetter__", "__proto__"}

\* the text of an inherited property when it is added to a number
inheritedText(key) ==
  IF key = "__proto__" THEN "[object Object]"
  ELSE IF key = "constructor" THEN "function Object() { [native code] }"
  ELSE "function " \o key \o "() { [native code] }"

\* acc[key]: the own property, else the inherited one, else undefined
getProperty(acc, key) ==
  IF key \in DOMAIN acc THEN acc[key]
  ELSE IF key \in ObjectPrototypeKeys THEN JsString(inheritedText(key))
  ELSE undefined

\* (value ?? 0) + 1: a number is incremented, a text gets "1" appended
plusOne(value) ==
  IF value.type = "undefined" THEN JsNumber(1)
  ELSE IF value.type = "number" THEN JsNumber(value.num + 1)
  ELSE JsString(value.str \o "1")

\* acc[key] = value; the setter of __proto__ ignores a value that is no object
setProperty(acc, key, value) ==
  IF key = "__proto__" THEN acc
  ELSE [k \in DOMAIN acc \cup {key} |-> IF k = key THEN value ELSE acc[k]]

\* sessions.reduce((acc, session) => { acc[session.focus] = (acc[session.focus] ?? 0) + 1 }, {})
RECURSIVE focusSummary(_)
focusSummary(sess) ==
  IF Len(sess) = 0 THEN [k \in {} |-> undefined]
  ELSE LET acc == focusSummary(SubSeq(sess, 1, Len(sess) - 1))
           session == sess[Len(sess)]
       IN setProperty(acc, session.focus, plusOne(getProperty(acc, session.focus)))

\* the value of nextSessionId for an empty store; uuid() never returns it
null == 0

\* nextSessionId sorting by the start alone
nextSessionIdByStart(sess) ==
  IF Len(sess) = 0 THEN null ELSE sort(sess, "byStart")[1].id

\* if (!sessions.length) return null; [...sessions].sort(...)[0]?.id ?? null
nextSessionId(sess) ==
  IF Len(sess) = 0 THEN null ELSE sort(sess, "byDayThenStart")[1].id

\* intensityScore with nothing for a Light session
intensityScoreHeavyOnly(session) ==
  IF session.intensity = "Intense" THEN 3
  ELSE IF session.intensity = "Moderate" THEN 2 ELSE 0

\* session.intensity === 'Intense' ? 3 : session.intensity === 'Moderate' ? 2 : 1
intensityScore(session) ==
  IF session.intensity = "Intense" THEN 3
  ELSE IF session.intensity = "Moderate" THEN 2 ELSE 1

\* daySessions.reduce((acc, session) => acc + intensityScore, 0)
RECURSIVE score(_)
score(daySessions) ==
  IF Len(daySessions) = 0 THEN 0
  ELSE score(SubSeq(daySessions, 1, Len(daySessions) - 1))
         + intensityScore(daySessions[Len(daySessions)])

\* rating with a score of 1 rated as no load
ratingFromTwo(dayScore) ==
  IF dayScore <= 1 THEN "Recovery" ELSE IF dayScore >= 4 THEN "Load" ELSE "Build"

\* score === 0 ? 'Recovery' : score >= 4 ? 'Load' : 'Build'
rating(dayScore) ==
  IF dayScore = 0 THEN "Recovery" ELSE IF dayScore >= 4 THEN "Load" ELSE "Build"

\* the rating shown for a day
dayRating(sess, day) == rating(score(grouped(sess)[day]))

---------------------------------------------------------------------------
(* The store under a longer run of session operations and form edits of    *)
(* day, start and focus, for the derived views; the draft rows are left    *)
(* alone and no history is recorded.                                       *)

MaxStoreUuid == 19

StoreFormInputs ==
  ({"day"} \X InputDays)
    \cup ({"start"} \X {"07:00", "05:30"})
    \cup ({"focus"} \X {"Lower Body Strength", "toString"})

StoreHandleSessionChange ==
  \E kv \in StoreFormInputs :
    /\ sessionForm[kv[1]] # kv[2]
    /\ sessionForm' = handleSessionChange(sessionForm, kv[1], kv[2])
    /\ UNCHANGED <<sessions, exerciseDrafts, uuidCount, everUsed, lastOp, prev>>

StoreAddSession ==
  LET next == addSession(sessions, sessionForm, exerciseDrafts, uuidCount)
  IN /\ next.uuidCount <= MaxStoreUuid
     /\ sessions' = next.sessions
     /\ exerciseDrafts' = next.exerciseDrafts
     /\ uuidCount' = next.uuidCount
     /\ UNCHANGED <<sessionForm, everUsed, lastOp, prev>>

StoreApplyTemplateToDay ==
  \E day \in InputDays, templateIndex \in 0..(Len(templates) - 1) :
    /\ uuidCount + 1 + Len(templates[templateIndex + 1].exercises) <= MaxStoreUuid
    /\ sessions' = applyTemplateToDay(sessions, day, templateIndex, uuidCount)
    /\ uuidCount' = uuidCount + 1 + Len(templates[templateIndex + 1].exercises)
    /\ UNCHANGED <<sessionForm, exerciseDrafts, everUsed, lastOp, prev>>

StoreClearDay ==
  \E day \in InputDays :
    /\ clearDay(sessions, day) # sessions
    /\ sessions' = clearDay(sessions, day)
    /\ UNCHANGED <<sessionForm, exerciseDrafts, uuidCount, everUsed, lastOp, prev>>

StoreDuplicateSession ==
  \E sessionId \in SessionIdsOf(sessions), direction \in Directions, today \in Dates :
    /\ uuidCount + duplicateUuids(sessions, sessionId) <= MaxStoreUuid
    /\ sessions' = duplicateSession(sessions, sessionId, direction, today, uuidCount)
    /\ uuidCount' = uuidCount + duplicateUuids(sessions, sessionId)
    /\ UNCHANGED <<sessionForm, exerciseDrafts, everUsed, lastOp, prev>>

StoreRemoveSession ==
  \E sessionId \in SessionIdsOf(sessions) :
    /\ sessions' = removeSession(sessions, sessionId)
    /\ UNCHANGED <<sessionForm, exerciseDrafts, uuidCount, everUsed, lastOp, prev>>

NextStore ==
  \/ StoreHandleSessionChange
  \/ StoreAddSession
  \/ StoreApplyTemplateToDay
  \/ StoreClearDay
  \/ StoreDuplicateSession
  \/ StoreRemoveSession

SpecStore == Init /\ [][NextStore]_vars

---------------------------------------------------------------------------
(* The draft rows under edits of the sets input, and addSession.           *)

\* texts of the sets input: emptied, a count
SetsTexts == {"", "5"}

\* onChange of the sets input:
\* handleExerciseChange(exercise.id, 'sets', Number(event.target.value) || 0)
HandleSetsChange ==
  \E i \in 1..Len(exerciseDrafts), text \in SetsTexts :
    /\ exerciseDrafts[i].sets # setsFromInput(text)
    /\ exerciseDrafts' = handleExerciseChange(exerciseDrafts, exerciseDrafts[i].id,
                                              "sets", setsFromInput(text))
    /\ UNCHANGED <<sessions, sessionForm, uuidCount>>
    /\ Record("handleExerciseChange", <<>>)

NextSets ==
  \/ HandleExerciseChange
  \/ HandleSetsChange
  \/ AddExerciseDraft
  \/ RemoveExerciseDraft
  \/ AddSession

SpecSets == Init /\ [][NextSets]_vars

---------------------------------------------------------------------------
(* Properties *)

\* the session at the end of the sequence
NewSession == sessions[Len(sessions)]

\* a draft row addSession drops: its name is empty or only white space
Blank(e) == Len(trim(e.name)) = 0

\* an exercise without its identifier
Content(e) == [name |-> e.name, focus |-> e.focus, sets |-> e.sets, reps |-> e.reps,
               notes |-> e.notes]

Contents(list) == [i \in 1..Len(list) |-> Content(list[i])]

\* the identifiers of a list are pairwise different and none was used before
FreshIds(list) ==
  /\ \A i \in 1..Len(list) : list[i].id \notin prev.everUsed
  /\ \A i, j \in 1..Len(list) : i # j => list[i].id # list[j].id

Added == lastOp.op = "addSession"

Removed == lastOp.op = "removeSession"

Cleared == lastOp.op = "clearDay"

\* duplicateSession ran with the identifier of a session of the store
Duplicated ==
  /\ lastOp.op = "duplicateSession"
  /\ \E i \in 1..Len(prev.sessions) : prev.sessions[i].id = lastOp.args[1]

\* the session duplicateSession was asked to copy
Source ==
  prev.sessions[CHOOSE i \in 1..Len(prev.sessions) : prev.sessions[i].id = lastOp.args[1]]

\* C1: in every reachable state every session of the session sequence has at
\* least one exercise.
C1_SessionsHaveExercises ==
  \A i \in 1..Len(sessions) : Len(sessions[i].exercises) >= 1

\* addSession has run on draft rows that were all blank, next to an earlier session
C1_Witness ==
  /\ Added
  /\ \A i \in 1..Len(prev.exerciseDrafts) : Blank(prev.exerciseDrafts[i])
  /\ Len(sessions) >= 2

RECURSIVE ExercisesOf(_)
\* the exercises of all sessions, in one list
ExercisesOf(sess) ==
  IF Len(sess) = 0 THEN <<>>
  ELSE ExercisesOf(SubSeq(sess, 1, Len(sess) - 1)) \o sess[Len(sess)].exercises

\* C2: no two sessions share an identifier, no two exercises among those of
\* the sessions and the draft rows share one, and every identifier that
\* addSession, applyTemplateToDay or duplicateSession assigned was held by no
\* entity in any earlier state, removed entities included.
C2_IdentifiersUnique ==
  LET all == ExercisesOf(sessions) \o exerciseDrafts
  IN /\ \A i, j \in 1..Len(sessions) : i # j => sessions[i].id # sessions[j].id
     /\ \A i, j \in 1..Len(all) : i # j => all[i].id # all[j].id
     /\ lastOp.op \in {"addSession", "applyTemplateToDay", "duplicateSession"}
          => (EntityIds(sessions, exerciseDrafts)
                \ EntityIds(prev.sessions, prev.exerciseDrafts)) \cap prev.everUsed = {}

\* a session was duplicated after some entity created since the page loaded
\* had been removed
C2_Witness ==
  /\ Duplicated
  /\ \E id \in prev.everUsed :
       id > ModuleUuids + 2 /\ id \notin EntityIds(prev.sessions, prev.exerciseDrafts)

\* C3: addSession, from any state and for any draft contents, makes the
\* session sequence exactly one longer, and the session it adds has at least
\* one exercise.
C3_AddSessionAddsOne ==
  Added =>
    /\ Len(sessions) = Len(prev.sessions) + 1
    /\ Len(NewSession.exercises) >= 1

\* addSession has run on a store with a session and on drafts with a blank row
C3_Witness ==
  /\ Added
  /\ Len(prev.sessions) >= 1
  /\ \E i \in 1..Len(prev.exerciseDrafts) : Blank(prev.exerciseDrafts[i])

\* C4, as the specification states it: addSession on drafts that are all blank
\* yields a session with exactly one exercise, named "Full-Body Circuit", with
\* 5 sets and the prescription "45s on/15s off".
C4_FallbackAsStated ==
  (Added /\ \A i \in 1..Len(prev.exerciseDrafts) : Blank(prev.exerciseDrafts[i]))
    => /\ Len(NewSession.exercises) = 1
       /\ NewSession.exercises[1].name = "Full-Body Circuit"
       /\ NewSession.exercises[1].sets = 5
       /\ NewSession.exercises[1].reps = "45s on/15s off"

\* C4, amended: addSession on drafts that are all blank yields a session with
\* exactly one exercise, named "Full-Body Circuit", with 5 sets and the
\* prescription "45s on / 15s off" (blanks around the slash).
C4_Fallback ==
  (Added /\ \A i \in 1..Len(prev.exerciseDrafts) : Blank(prev.exerciseDrafts[i]))
    => /\ Len(NewSession.exercises) = 1
       /\ NewSession.exercises[1].name = "Full-Body Circuit"
       /\ NewSession.exercises[1].sets = 5
       /\ NewSession.exercises[1].reps = "45s on / 15s off"

\* addSession has run on two draft rows, one empty and one of white space
C4_Witness ==
  /\ Added
  /\ Len(prev.exerciseDrafts) = 2
  /\ \E i, j \in 1..2 : prev.exerciseDrafts[i].name = "" /\ prev.exerciseDrafts[j].name = " "

\* C5, as the specification states it: addSession keeps a draft exactly when
\* its name is non-empty; when some draft has a non-empty name the exercises
\* of the new session are the drafts with a non-empty name, in draft order,
\* with the draft's name, focus, sets, reps and notes and a fresh identifier.
C5_KeepsNonEmptyNames ==
  (Added /\ \E i \in 1..Len(prev.exerciseDrafts) : Len(prev.exerciseDrafts[i].name) > 0)
    => /\ Contents(NewSession.exercises)
            = Contents(SelectSeq(prev.exerciseDrafts, LAMBDA e : Len(e.name) > 0))
       /\ FreshIds(NewSession.exercises)

\* C5, amended: addSession keeps a draft exactly when its name is non-empty
\* after white space is trimmed from it; when some draft has such a name the
\* exercises of the new session are exactly those drafts, in draft order,
\* with the draft's name, focus, sets, reps and notes and a fresh identifier.
C5_KeepsNamedDrafts ==
  (Added /\ \E i \in 1..Len(prev.exerciseDrafts) : ~Blank(prev.exerciseDrafts[i]))
    => /\ Contents(NewSession.exercises)
            = Contents(SelectSeq(prev.exerciseDrafts, LAMBDA e : ~Blank(e)))
       /\ FreshIds(NewSession.exercises)

\* addSession has run on drafts of which it kept one and dropped one
C5_Witness ==
  /\ Added
  /\ \E i, j \in 1..Len(prev.exerciseDrafts) :
       ~Blank(prev.exerciseDrafts[i]) /\ Blank(prev.exerciseDrafts[j])
  /\ Len(NewSession.exercises) = 1

\* the sequence without its k-th element
Without(seq, k) == SubSeq(seq, 1, k - 1) \o SubSeq(seq, k + 1, Len(seq))

\* C6: removeSession(id) makes the store one session shorter when a session
\* has that identifier and leaves its size otherwise; every other session
\* stays, unchanged and in the same relative order.
C6_RemoveSession ==
  Removed =>
    IF \E k \in 1..Len(prev.sessions) : prev.sessions[k].id = lastOp.args[1]
    THEN /\ Len(sessions) = Len(prev.sessions) - 1
         /\ \E k \in 1..Len(prev.sessions) :
              /\ prev.sessions[k].id = lastOp.args[1]
              /\ sessions = Without(prev.sessions, k)
    ELSE sessions = prev.sessions

\* removeSession has removed a session that was not the last of several
C6_Witness ==
  /\ Removed
  /\ Len(prev.sessions) >= 2
  /\ \E k \in 1..(Len(prev.sessions) - 1) : prev.sessions[k].id = lastOp.args[1]
  /\ Len(sessions) >= 1

\* seq is sub with the elements of other days left out: the elements of seq
\* not on the day are those of sub, in the same order
RECURSIVE KeepsOtherDays(_, _, _)
KeepsOtherDays(seq, sub, day) ==
  IF Len(seq) = 0 THEN Len(sub) = 0
  ELSE IF seq[1].day = day THEN KeepsOtherDays(Tail(seq), sub, day)
  ELSE /\ Len(sub) > 0
       /\ sub[1] = seq[1]
       /\ KeepsOtherDays(Tail(seq), Tail(sub), day)

\* C7: clearDay(day) removes all and only the sessions of that day, the
\* sessions of the other days staying as they were; clearing the day a second
\* time, or clearing a day without sessions, changes nothing.
C7_ClearDay ==
  Cleared =>
    /\ \A i \in 1..Len(sessions) : sessions[i].day # lastOp.args[1]
    /\ KeepsOtherDays(prev.sessions, sessions, lastOp.args[1])
    /\ clearDay(sessions, lastOp.args[1]) = sessions
    /\ (\A i \in 1..Len(prev.sessions) : prev.sessions[i].day # lastOp.args[1])
         => sessions = prev.sessions

\* clearDay has removed two sessions of a day and kept one of another day
C7_Witness ==
  /\ Cleared
  /\ Len(prev.sessions) = Len(sessions) + 2
  /\ Len(sessions) >= 1

\* the week as a cycle
DayAfter ==
  [Monday |-> "Tuesday", Tuesday |-> "Wednesday", Wednesday |-> "Thursday",
   Thursday |-> "Friday", Friday |-> "Saturday", Saturday |-> "Sunday",
   Sunday |-> "Monday"]

DayBefore ==
  [Monday |-> "Sunday", Tuesday |-> "Monday", Wednesday |-> "Tuesday",
   Thursday |-> "Wednesday", Friday |-> "Thursday", Saturday |-> "Friday",
   Sunday |-> "Saturday"]

\* C8: duplicateSession puts the copy on the adjacent day of the Monday to
\* Sunday cycle: the day after the source's for "next", Sunday being followed
\* by Monday, and the day before for "previous", Monday being preceded by
\* Sunday.
C8_AdjacentDay ==
  Duplicated =>
    NewSession.day = IF lastOp.args[2] = "next" THEN DayAfter[Source.day]
                     ELSE DayBefore[Source.day]

\* a Sunday session has been duplicated to the next day
C8_Witness ==
  /\ Duplicated
  /\ Source.day = "Sunday"
  /\ lastOp.args[2] = "next"
  /\ NewSession.day = "Monday"

\* the minute of the day of a valid "HH:MM" text
ClockMinutes(t) ==
  (DigitValue(CharAt(t, 1)) * 10 + DigitValue(CharAt(t, 2))) * 60
    + DigitValue(CharAt(t, 4)) * 10 + DigitValue(CharAt(t, 5))

\* the time, shifted by an hour in the direction, on the 24-hour clock
Shifted(t, direction) ==
  ClockText((ClockMinutes(t) + (IF direction = "next" THEN 60 ELSE 1440 - 60)) % 1440)

\* C9: for every valid "HH:MM" time and the offsets +60 and -60, the shift
\* duplicateSession applies to start and end gives the valid zero-padded
\* "HH:MM" of (hours*60 + minutes + offset) modulo 1440; "23:30" shifted by
\* +60 is "00:30" and "00:20" shifted by -60 is "23:20".
C9_TimeShift ==
  Duplicated =>
    \A p \in {<<Source.start, NewSession.start>>, <<Source.end, NewSession.end>>} :
      p[1] \in AllTimes =>
        /\ p[2] \in AllTimes
        /\ p[2] = Shifted(p[1], lastOp.args[2])
        /\ (p[1] = "23:30" /\ lastOp.args[2] = "next") => p[2] = "00:30"
        /\ (p[1] = "00:20" /\ lastOp.args[2] = "previous") => p[2] = "23:20"

\* a session starting at "00:20" has been duplicated to the previous day
C9_Witness ==
  /\ Duplicated
  /\ Source.start = "00:20"
  /\ lastOp.args[2] = "previous"
  /\ NewSession.start = "23:20"

\* C10: duplicateSession of an existing identifier leaves the source where
\* it was, with its id, day, start, end, notes and exercises, and the store
\* grows by exactly one session, the copy, at the end, with a fresh session
\* identifier and fresh identifiers for all the copied exercises.
C10_DuplicateKeepsSource ==
  Duplicated =>
    /\ Len(sessions) = Len(prev.sessions) + 1
    /\ \A i \in 1..Len(prev.sessions) : sessions[i] = prev.sessions[i]
    /\ NewSession.id \notin prev.everUsed
    /\ Contents(NewSession.exercises) = Contents(Source.exercises)
    /\ FreshIds(NewSession.exercises)
    /\ \A i \in 1..Len(NewSession.exercises) : NewSession.exercises[i].id # NewSession.id

\* a session of a store of two sessions has been duplicated
C10_Witness ==
  /\ Duplicated
  /\ Len(prev.sessions) = 2
  /\ Len(sessions) = 3


\* C11: duplicateSession with an identifier of no session of the store
\* changes nothing: the session sequence, the session form and the draft rows
\* are as before.
C11_DuplicateUnknownId ==
  (/\ lastOp.op = "duplicateSession"
   /\ \A i \in 1..Len(prev.sessions) : prev.sessions[i].id # lastOp.args[1])
    => /\ sessions = prev.sessions
       /\ sessionForm = prev.sessionForm
       /\ exerciseDrafts = prev.exerciseDrafts

\* duplicateSession has run, on a store with sessions, with an identifier
\* none of them has
C11_Witness ==
  /\ lastOp.op = "duplicateSession"
  /\ Len(prev.sessions) >= 2
  /\ \A i \in 1..Len(prev.sessions) : prev.sessions[i].id # lastOp.args[1]

\* focus and number of exercises of the three templates, by index
TemplateFocus == <<"Upper Body Push", "Engine Builder", "Recovery">>

TemplateSize == <<3, 2, 3>>

\* C12: applyTemplateToDay(day, templateIndex) appends exactly one session,
\* on the given day, from "18:00" to "19:00", with the template's focus,
\* intensity, location, target and notes and with a copy of the template's
\* exercises, in order, each under a fresh identifier; the sessions there
\* before, the session form and the draft rows are unchanged.
C12_ApplyTemplate ==
  lastOp.op = "applyTemplateToDay" =>
    LET template == templates[lastOp.args[2] + 1]
    IN /\ Len(sessions) = Len(prev.sessions) + 1
       /\ \A i \in 1..Len(prev.sessions) : sessions[i] = prev.sessions[i]
       /\ NewSession.day = lastOp.args[1]
       /\ NewSession.start = "18:00"
       /\ NewSession.end = "19:00"
       /\ NewSession.focus = template.focus
       /\ NewSession.focus = TemplateFocus[lastOp.args[2] + 1]
       /\ NewSession.intensity = template.intensity
       /\ NewSession.location = template.location
       /\ NewSession.target = template.target
       /\ NewSession.notes = template.notes
       /\ Len(NewSession.exercises) = TemplateSize[lastOp.args[2] + 1]
       /\ Contents(NewSession.exercises) = Contents(template.exercises)
       /\ NewSession.id \notin prev.everUsed
       /\ FreshIds(NewSession.exercises)
       /\ \A i \in 1..Len(NewSession.exercises) :
            NewSession.exercises[i].id # NewSession.id
       /\ sessionForm = prev.sessionForm
       /\ exerciseDrafts = prev.exerciseDrafts

\* the third template has been applied to Sunday in a store with a session
C12_Witness ==
  /\ lastOp.op = "applyTemplateToDay"
  /\ lastOp.args = <<"Sunday", 2>>
  /\ Len(prev.sessions) >= 1
  /\ NewSession.focus = "Recovery"


\* the set of the elements of a sequence
Range(seq) == {seq[i] : i \in 1..Len(seq)}

\* C17: the draft rows are never empty: removeExerciseDraft on the only row
\* leaves the rows as they are, on one of several rows it removes that row
\* and no other, and addSession leaves exactly one row, with an empty name.
C17_DraftRows ==
  /\ Len(exerciseDrafts) >= 1
  /\ lastOp.op = "removeExerciseDraft" =>
       IF Len(prev.exerciseDrafts) = 1
       THEN exerciseDrafts = prev.exerciseDrafts
       ELSE \E k \in 1..Len(prev.exerciseDrafts) :
              /\ prev.exerciseDrafts[k].id = lastOp.args[1]
              /\ exerciseDrafts = Without(prev.exerciseDrafts, k)
  /\ Added => /\ Len(exerciseDrafts) = 1
              /\ exerciseDrafts[1].name = ""

\* removeExerciseDraft has run on the only row, which had a name
C17_Witness ==
  /\ lastOp.op = "removeExerciseDraft"
  /\ Len(prev.exerciseDrafts) = 1
  /\ prev.exerciseDrafts[1].name = "Row"
  /\ prev.exerciseDrafts[1].id = lastOp.args[1]

\* the operations that edit the session form or the draft rows
Edits ==
  {"handleSessionChange", "handleExerciseChange", "addExerciseDraft",
   "removeExerciseDraft"}

\* C18: a session of the store before a step that is neither removeSession
\* with its identifier nor clearDay with its day is in the store after the step
\* with all its fields and exercises, and the edits of the session form and of
\* the draft rows leave the session sequence as it is.
C18_SessionsPersist ==
  /\ \A i \in 1..Len(prev.sessions) :
       (/\ ~(Removed /\ lastOp.args[1] = prev.sessions[i].id)
        /\ ~(Cleared /\ lastOp.args[1] = prev.sessions[i].day))
         => prev.sessions[i] \in Range(sessions)
  /\ lastOp.op \in Edits => sessions = prev.sessions

\* clearDay has removed a session and kept a session of another day
C18_Witness ==
  /\ Cleared
  /\ Len(sessions) >= 1
  /\ Len(sessions) < Len(prev.sessions)
  /\ sessions[1].day # lastOp.args[1]

\* the operations that create a session
Creators == {"addSession", "duplicateSession", "applyTemplateToDay"}

\* C19 as stated: every session of the store was created by addSession,
\* duplicateSession or applyTemplateToDay, and before the first of these
\* operations the store holds no session.
C19_NoSessionBeforeCreation ==
  /\ lastOp.op = "init" => Len(sessions) = 0
  /\ \A i \in 1..Len(sessions) :
       sessions[i] \notin Range(prev.sessions) => lastOp.op \in Creators

\* C19: the store of the initial state holds one session, on Monday from
\* "07:00" to "08:15" with focus "Lower Body Strength" and the default
\* exercises; every other session was created by addSession, duplicateSession
\* or applyTemplateToDay: a session that was not in the store before a step is
\* the last one of the sequence and the step is one of these three.
C19_CreatedByOperation ==
  /\ lastOp.op = "init" =>
       /\ Len(sessions) = 1
       /\ sessions[1].day = "Monday"
       /\ sessions[1].start = "07:00"
       /\ sessions[1].end = "08:15"
       /\ sessions[1].focus = "Lower Body Strength"
       /\ sessions[1].exercises = defaultExercises
  /\ \A i \in 1..Len(sessions) :
       sessions[i] \notin Range(prev.sessions)
         => lastOp.op \in Creators /\ i = Len(sessions)

\* the session of the initial state has been removed and the store then holds
\* a session created by applyTemplateToDay
C19_Witness ==
  /\ lastOp.op = "applyTemplateToDay"
  /\ Len(prev.sessions) = 0
  /\ Len(sessions) = 1
  /\ sessions[1].focus # "Lower Body Strength"


\* the days of the week
WeekDays ==
  {"Monday", "Tuesday", "Wednesday", "Thursday", "Friday", "Saturday", "Sunday"}

\* the number of times an element occurs in a sequence
Occurrences(seq, x) == Cardinality({k \in 1..Len(seq) : seq[k] = x})

\* C13: in every reachable state the day grouping has exactly the seven day
\* buckets, every session of the store is once in the bucket of its day and
\* in no other bucket, no bucket holds a session that is not in the store, and
\* the sessions of a bucket are in non-decreasing order of start time.
C13_DayGrouping ==
  LET buckets == grouped(sessions)
  IN /\ DOMAIN buckets = WeekDays
     /\ \A i \in 1..Len(sessions), day \in WeekDays :
          Occurrences(buckets[day], sessions[i])
            = IF day = sessions[i].day THEN 1 ELSE 0
     /\ \A day \in WeekDays : Range(buckets[day]) \subseteq Range(sessions)
     /\ \A day \in WeekDays : \A k \in 1..(Len(buckets[day]) - 1) :
          ClockMinutes(buckets[day][k].start) <= ClockMinutes(buckets[day][k + 1].start)

\* Monday holds three sessions, the last of the store starting before the
\* others, and Tuesday holds none
C13_Witness ==
  /\ Len(grouped(sessions)["Monday"]) = 3
  /\ Len(grouped(sessions)["Tuesday"]) = 0
  /\ NewSession.day = "Monday"
  /\ \A i \in 1..(Len(sessions) - 1) :
       sessions[i].day = "Monday"
         => ClockMinutes(NewSession.start) < ClockMinutes(sessions[i].start)

\* the index of a day in the week, Monday first
DayNumber(day) ==
  CASE day = "Monday" -> 0 [] day = "Tuesday" -> 1 [] day = "Wednesday" -> 2
    [] day = "Thursday" -> 3 [] day = "Friday" -> 4 [] day = "Saturday" -> 5
    [] day = "Sunday" -> 6

\* session a is earlier in the week than session b
Earlier(a, b) ==
  \/ DayNumber(a.day) < DayNumber(b.day)
  \/ a.day = b.day /\ ClockMinutes(a.start) < ClockMinutes(b.start)

\* C14: nextSessionId is null exactly when the store is empty; otherwise it
\* is the identifier of a session of the store than which no session of the
\* store is on an earlier day, or on the same day with an earlier start.
C14_NextSession ==
  /\ nextSessionId(sessions) = null <=> Len(sessions) = 0
  /\ Len(sessions) > 0 =>
       \E i \in 1..Len(sessions) :
         /\ sessions[i].id = nextSessionId(sessions)
         /\ \A j \in 1..Len(sessions) : ~Earlier(sessions[j], sessions[i])

\* the next session is the last of a store of three; the store holds a
\* session of a later day with an earlier start and one of the same day with
\* a later start
C14_Witness ==
  /\ Len(sessions) = 3
  /\ nextSessionId(sessions) = NewSession.id
  /\ \E i \in 1..Len(sessions) :
       /\ DayNumber(sessions[i].day) > DayNumber(NewSession.day)
       /\ ClockMinutes(sessions[i].start) < ClockMinutes(NewSession.start)
  /\ \E i \in 1..Len(sessions) :
       /\ sessions[i].day = NewSession.day
       /\ ClockMinutes(sessions[i].start) > ClockMinutes(NewSession.start)

\* the sessions of the store on a day with an intensity
Of(day, intensity) ==
  {i \in 1..Len(sessions) : sessions[i].day = day /\ sessions[i].intensity = intensity}

\* 3 for each Intense session of the day, 2 for each Moderate and 1 for each
\* Light one
Load(day) ==
  3 * Cardinality(Of(day, "Intense")) + 2 * Cardinality(Of(day, "Moderate"))
    + Cardinality(Of(day, "Light"))

\* C15: the rating of a day is "Recovery" when the score of its sessions (3
\* for Intense, 2 for Moderate, 1 for Light) is 0, "Load" when it is at least
\* 4 and "Build" otherwise: a day without sessions rates "Recovery", a day of
\* two Intense sessions "Load" and a day of one Moderate session "Build".
C15_DayRating ==
  \A day \in WeekDays :
    LET mine == {i \in 1..Len(sessions) : sessions[i].day = day}
    IN /\ dayRating(sessions, day)
            = IF Load(day) = 0 THEN "Recovery"
              ELSE IF Load(day) >= 4 THEN "Load" ELSE "Build"
       /\ mine = {} => dayRating(sessions, day) = "Recovery"
       /\ (Cardinality(mine) = 2 /\ Cardinality(Of(day, "Intense")) = 2)
            => dayRating(sessions, day) = "Load"
       /\ (Cardinality(mine) = 1 /\ Cardinality(Of(day, "Moderate")) = 1)
            => dayRating(sessions, day) = "Build"

\* Monday holds two Intense sessions and nothing else, Sunday one Moderate
\* session and Tuesday no session
C15_Witness ==
  /\ Len(sessions) = 3
  /\ Cardinality(Of("Monday", "Intense")) = 2
  /\ Cardinality(Of("Sunday", "Moderate")) = 1
  /\ dayRating(sessions, "Monday") = "Load"
  /\ dayRating(sessions, "Sunday") = "Build"
  /\ dayRating(sessions, "Tuesday") = "Recovery"

\* C16: in every reachable state the focus histogram has as keys the focus
\* labels of the sessions of the store and maps each to the number of the
\* sessions with that focus.
C16_FocusHistogram ==
  LET histogram == focusSummary(sessions)
  IN /\ DOMAIN histogram = {sessions[i].focus : i \in 1..Len(sessions)}
     /\ \A label \in DOMAIN histogram :
          histogram[label]
            = JsNumber(Cardinality({i \in 1..Len(sessions) : sessions[i].focus = label}))


\* C20: in every reachable state the sets of every exercise of every session
\* of the store is a positive integer.
C20_SetsPositive ==
  \A i \in 1..Len(sessions) : \A k \in 1..Len(sessions[i].exercises) :
    sessions[i].exercises[k].sets \in Nat \ {0}


\* C21: the session sequence is in insertion order: addSession,
\* applyTemplateToDay and duplicateSession of an existing identifier put the
\* new session after all the sessions there were, and removeSession and
\* clearDay leave the remaining sessions in the order they had, whatever the
\* days and start times.
C21_InsertionOrder ==
  /\ (Added \/ Duplicated \/ lastOp.op = "applyTemplateToDay") =>
       /\ Len(sessions) = Len(prev.sessions) + 1
       /\ SubSeq(sessions, 1, Len(prev.sessions)) = prev.sessions
       /\ NewSession \notin Range(prev.sessions)
  /\ (Removed \/ Cleared) =>
       sessions = SelectSeq(prev.sessions, LAMBDA s : s \in Range(sessions))

\* removeSession has taken the first of three sessions, and of the two that
\* remain the first is on a later day of the week than the second
C21_Witness ==
  /\ Removed
  /\ Len(prev.sessions) = 3
  /\ sessions = Tail(prev.sessions)
  /\ sessions[1].day = "Sunday"
  /\ sessions[2].day = "Monday"


\* the minutes from the start of a session to its end on the 24-hour clock
Duration(session) ==
  (ClockMinutes(session.end) + 1440 - ClockMinutes(session.start)) % 1440

\* C22: duplicateSession of a session with valid start and end keeps the
\* duration on the 24-hour clock, (end - start) modulo 1440 minutes, also
\* when the shift takes exactly one of the two times past midnight.
C22_DuplicateKeepsDuration ==
  (Duplicated /\ Source.start \in AllTimes /\ Source.end \in AllTimes)
    => Duration(NewSession) = Duration(Source)

\* a session from "07:00" to "23:30" has been duplicated to the next day:
\* the end of the copy is past midnight and before its start
C22_Witness ==
  /\ Duplicated
  /\ lastOp.args[2] = "next"
  /\ Source.start = "07:00"
  /\ Source.end = "23:30"
  /\ NewSession.start = "08:00"
  /\ NewSession.end = "00:30"
  /\ Duration(NewSession) = 990


\* duplicateSession has run on the copy that a duplicateSession in the other
\* direction had appended in the step before
RoundTrip ==
  /\ Duplicated
  /\ lastOp.args[3].op = "duplicateSession"
  /\ lastOp.args[3].args[2] # lastOp.args[2]
  /\ lastOp.args[1] = prev.sessions[Len(prev.sessions)].id

\* the session the first of the two duplications copied
Original ==
  prev.sessions[CHOOSE i \in 1..Len(prev.sessions) :
                  prev.sessions[i].id = lastOp.args[3].args[1]]

\* C23: duplicating a session with valid start and end to the next day and
\* the copy to the previous day, or to the previous day and the copy to the
\* next day, gives a session with the day, the start and the end of the
\* session.
C23_RoundTrip ==
  (RoundTrip /\ Original.start \in AllTimes /\ Original.end \in AllTimes)
    => /\ NewSession.day = Original.day
       /\ NewSession.start = Original.start
       /\ NewSession.end = Original.end

\* a Monday session from "00:20" to "23:30" was duplicated to Sunday, from
\* "23:20" to "22:30", and the copy back to Monday
C23_Witness ==
  /\ RoundTrip
  /\ lastOp.args[2] = "next"
  /\ Original.day = "Monday"
  /\ Original.start = "00:20"
  /\ Original.end = "23:30"
  /\ Source.day = "Sunday"
  /\ Source.start = "23:20"
  /\ Source.end = "22:30"
  /\ NewSession.day = "Monday"
  /\ NewSession.start = "00:20"


\* the earliest day of the week with a session
FirstDay ==
  CHOOSE day \in {sessions[i].day : i \in 1..Len(sessions)} :
    \A i \in 1..Len(sessions) : DayNumber(day) <= DayNumber(sessions[i].day)

\* the place in the store of the session with an identifier
PlaceOf(id) == CHOOSE i \in 1..Len(sessions) : sessions[i].id = id

\* C24: when the store holds a session, nextSessionId is the identifier of
\* the first session of the bucket of the earliest day of the week that has
\* a session; of the sessions with the day and the start of that session it
\* is the one inserted first.
C24_NextIsFirstOfGrouping ==
  Len(sessions) > 0 =>
    /\ nextSessionId(sessions) = grouped(sessions)[FirstDay][1].id
    /\ \A i \in 1..Len(sessions) :
         (/\ sessions[i].day = sessions[PlaceOf(nextSessionId(sessions))].day
          /\ sessions[i].start = sessions[PlaceOf(nextSessionId(sessions))].start)
           => PlaceOf(nextSessionId(sessions)) <= i

\* the store holds a Sunday session and then two Monday sessions with the
\* same start; the first of the two is the next session
C24_Witness ==
  /\ Len(sessions) = 3
  /\ sessions[1].day = "Sunday"
  /\ sessions[2].day = "Monday"
  /\ sessions[3].day = "Monday"
  /\ sessions[2].start = sessions[3].start
  /\ nextSessionId(sessions) = sessions[2].id
  /\ grouped(sessions)["Monday"][1].id = sessions[2].id


\* the ratings in the order Recovery < Build < Load
RatingRank(r) == CASE r = "Recovery" -> 0 [] r = "Build" -> 1 [] r = "Load" -> 2

\* a step has put a session at the end of the session sequence
SessionAdded ==
  /\ Len(sessions') = Len(sessions) + 1
  /\ SubSeq(sessions', 1, Len(sessions)) = sessions

\* C25: in every reachable state the rating of a day is "Recovery" exactly
\* when the day has no session, and a step that adds a session to a day
\* (addSession, applyTemplateToDay, duplicateSession) does not lower the
\* rating of that day in the order Recovery < Build < Load.
C25_RatingGrows ==
  /\ [](\A day \in WeekDays :
          dayRating(sessions, day) = "Recovery"
            <=> \A i \in 1..Len(sessions) : sessions[i].day # day)
  /\ [][SessionAdded =>
          LET day == sessions'[Len(sessions')].day
          IN RatingRank(dayRating(sessions', day))
               >= RatingRank(dayRating(sessions, day))]_vars

\* Monday holds an Intense and a Light session and rates "Load", Sunday one
\* Moderate session and rates "Build", and Tuesday no session
C25_Witness ==
  /\ Len(sessions) = 3
  /\ Cardinality(Of("Monday", "Intense")) = 1
  /\ Cardinality(Of("Monday", "Light")) = 1
  /\ Cardinality(Of("Sunday", "Moderate")) = 1
  /\ RatingRank(dayRating(sessions, "Monday")) = 2
  /\ RatingRank(dayRating(sessions, "Sunday")) = 1
  /\ RatingRank(dayRating(sessions, "Tuesday")) = 0

=============================================================================
